---- MODULE Spec2Model ----
(***************************************************************************)
(* The plastic pollution dashboard script (dashboard_Final_Script.py) as a *)
(* state machine.  One run of the script walks through its sections in     *)
(* order: load + schema check, total/company classification, sidebar       *)
(* selectors, KPI section, world map, composition, the two trends and the  *)
(* top-10 ranking.  A widget interaction re-runs the script from the top.  *)
(*                                                                         *)
(* Numbers of the CSV are modelled as integers.  A null (NaN) value of     *)
(* parent_company is the empty string, which is what read_csv turns into   *)
(* NaN.  Every record carries `line`, its position in the CSV file, so     *)
(* that the load order of a record can be told after sorting.              *)
(***************************************************************************)
EXTENDS Integers, Sequences, FiniteSets, TLC

\* ------------------------------------------------------------------ bounds
\* Longest table of the mixed-rows family.
MaxRows == 4
\* Largest number of company rows of the ranking family (one more than TopN,
\* so that head(10) cuts a row off).
MaxTopCompanies == 11

\* --------------------------------------------------------- program constants
required ==
    << "country", "year", "parent_company", "empty", "hdpe", "ldpe", "o", "pet",
       "pp", "ps", "pvc", "grand_total", "num_events", "volunteers",
       "grand_total_per_volunteer" >>

plastics_cols == << "hdpe", "ldpe", "o", "pet", "pp", "ps", "pvc" >>

recyclable_dropped == << "hdpe", "ldpe", "pet" >>

recyclable == << "hdpe", "ldpe", "pet", "pp" >>

non_recyclable == << "ps", "pvc", "o" >>

\* .head(10)
TopN == 10

\* The sentinel first option of the parent company selector.
All == "All"

\* NaN in parent_company.
Null == ""

\* What a selectbox returns when it has no options (Python None).
NoneYear == 0

NoneCountry == "None"

\* ------------------------------------------------------------------ helpers
Range(s) == { s[i] : i \in 1..Len(s) }

RECURSIVE SumOver(_, _)
\* Sum of f[x] over the finite set S.
SumOver(S, f) ==
    IF S = {} THEN 0
    ELSE LET x == CHOOSE y \in S : TRUE IN f[x] + SumOver(S \ {x}, f)

\* Column sum of a frame (a sequence of records): Series.sum().
ColSum(d, c) == SumOver(1..Len(d), [i \in 1..Len(d) |-> d[i][c]])

\* Sum of several columns of one record: DataFrame.sum(axis=1).
RowSum(r, cs) == SumOver(1..Len(cs), [i \in 1..Len(cs) |-> r[cs[i]]])

\* Boolean-mask indexing d[mask] is SelectSeq: a new frame with the rows that
\* satisfy the test, in their order.

\* The order of country names under Python's string comparison.
CountryRank(c) == CASE c = "A" -> 1 [] c = "B" -> 2 [] OTHER -> 3

\* ------------------------------------------------------------------- inputs
RowKinds ==
    { [country |-> "A", year |-> 2019, parent_company |-> "P"],
      [country |-> "A", year |-> 2020, parent_company |-> Null],
      [country |-> "A", year |-> 2020, parent_company |-> "P"],
      [country |-> "B", year |-> 2020, parent_company |-> Null],
      [country |-> "B", year |-> 2020, parent_company |-> "P"] }

\* The record on line n of the CSV: the numeric fields depend on the line.
Row(k, n, ratio) ==
    [ line |-> n, country |-> k.country, year |-> k.year,
      parent_company |-> k.parent_company,
      empty |-> 0, hdpe |-> n, ldpe |-> n + 1, o |-> 1, pet |-> 2, pp |-> n,
      ps |-> 1, pvc |-> 2, grand_total |-> 3 * n + 7, num_events |-> 1,
      volunteers |-> n + 1, grand_total_per_volunteer |-> ratio ]

MixedTables ==
    UNION { { [i \in 1..n |-> Row(ks[i], i, i)] : ks \in [1..n -> RowKinds] }
            : n \in 0..MaxRows }

CompanyNames ==
    << "C01", "C02", "C03", "C04", "C05", "C06", "C07", "C08", "C09", "C10",
       "C11", "C12", "C13", "C14" >>

\* One country and year: the total row, then n company rows of n distinct
\* companies with ratios 1..n in ascending order, the ratio of company k
\* raised by one (k = 0: none), which ties it with company k + 1.
TopTable(n, k) ==
    [i \in 1..(n + 1) |->
        IF i = 1
        THEN Row([country |-> "A", year |-> 2020, parent_company |-> Null], 1, 0)
        ELSE Row([country |-> "A", year |-> 2020,
                  parent_company |-> CompanyNames[i - 1]],
                 i, (i - 1) + (IF i - 1 = k THEN 1 ELSE 0))]

TopTables ==
    { TopTable(n, k) : n \in (TopN - 2)..MaxTopCompanies, k \in 0..MaxTopCompanies }

\* Column sets that lack required columns, and one with an extra column.
ColumnSets ==
    { Range(required) \ S : S \in SUBSET {"pvc", "country", "grand_total_per_volunteer"} }
        \cup { Range(required) \cup {"notes"} }

\* The rows of table t with only the columns cs (and the line number).
WithColumns(t, cs) ==
    [i \in 1..Len(t) |-> [c \in (cs \cap Range(required)) \cup {"line"} |-> t[i][c]]]


\* -------------------------------------------------------------------- state
VARIABLES
    pc,                      \* the section of the script that runs next
    ran,                     \* the sections this run has executed, in order
    columns,                 \* the header of the CSV file
    csv,                     \* the rows of the CSV file
    session,                 \* the widget values Streamlit keeps between runs
    df, missing, totals, companies,
    year_selected, country_selected, parent_company_selected,
    totals_y, kpi, fig_map, comp_vals, trend, trend_types, top10

vars ==
    << pc, ran, columns, csv, session, df, missing, totals, companies,
       year_selected, country_selected, parent_company_selected,
       totals_y, kpi, fig_map, comp_vals, trend, trend_types, top10 >>

input == << columns, csv >>

selection == << year_selected, country_selected, parent_company_selected >>

views == << df, totals, companies >>

outputs == << totals_y, kpi, fig_map, comp_vals, trend, trend_types, top10 >>

Unset == [kind |-> "unset"]

\* The script's names before a run has bound them.
Fresh ==
    /\ df = << >> /\ missing = << >> /\ totals = << >> /\ companies = << >>
    /\ year_selected = NoneYear /\ country_selected = NoneCountry
    /\ parent_company_selected = All
    /\ totals_y = << >> /\ kpi = Unset /\ fig_map = Unset /\ comp_vals = Unset
    /\ trend = << >> /\ trend_types = << >> /\ top10 = << >>

Init ==
    /\ pc = "load" /\ ran = << >> /\ session = << >>
    /\ \/ /\ columns = Range(required)
          /\ csv \in MixedTables \cup TopTables
       \/ /\ columns \in ColumnSets
          /\ \E t \in { m \in MixedTables : Len(m) <= 1 } : csv = WithColumns(t, columns)
    /\ Fresh

\* ------------------------------------------------- load and schema check
MissingFirstOnly(cols) ==
    LET m == SelectSeq(required, LAMBDA c : c \notin cols)
    IN  IF m = << >> THEN m ELSE << m[1] >>

\* missing = [c for c in required if c not in df.columns]
MissingColumns(cols) == SelectSeq(required, LAMBDA c : c \notin cols)

\* Lines 34-43: read_csv, the required-column check, st.error and st.stop.
Load ==
    /\ pc = "load"
    /\ df' = csv
    /\ missing' = MissingColumns(columns)
    /\ pc' = IF missing' # << >> THEN "stopped" ELSE "classify"
    /\ ran' = Append(ran, "load")
    /\ UNCHANGED << input, session, totals, companies, selection, outputs >>

\* ------------------------------------------------------------ classification
\* Row a sorts no later than row b under the keys ["country", "year"].
KeyLE(a, b) ==
    \/ CountryRank(a.country) < CountryRank(b.country)
    \/ a.country = b.country /\ a.year <= b.year

KeyLT(a, b) == ~KeyLE(b, a)

\* r put into the sorted frame s behind every row whose key is not larger.
InsertRow(s, r) ==
    LET k == Cardinality({ i \in 1..Len(s) : KeyLE(s[i], r) })
    IN  SubSeq(s, 1, k) \o << r >> \o SubSeq(s, k + 1, Len(s))

InsertRowFirst(s, r) ==
    LET k == Cardinality({ i \in 1..Len(s) : KeyLT(s[i], r) })
    IN  SubSeq(s, 1, k) \o << r >> \o SubSeq(s, k + 1, Len(s))

RECURSIVE sort_values_unstable(_)
sort_values_unstable(d) ==
    IF d = << >> THEN << >>
    ELSE InsertRowFirst(sort_values_unstable(SubSeq(d, 1, Len(d) - 1)), d[Len(d)])

RECURSIVE sort_values(_)
\* df.sort_values(["country", "year"]): pandas sorts on several keys with a
\* lexicographic sort that keeps rows of equal keys in their order.
sort_values(d) ==
    IF d = << >> THEN << >>
    ELSE InsertRow(sort_values(SubSeq(d, 1, Len(d) - 1)), d[Len(d)])

cumcount_from_one(d, i) ==
    Cardinality({ j \in 1..i :
                    d[j].country = d[i].country /\ d[j].year = d[i].year })

\* groupby(["country", "year"]).cumcount(): the number of rows before row i
\* that belong to the group of row i.
cumcount(d, i) ==
    Cardinality({ j \in 1..(i - 1) :
                    d[j].country = d[i].country /\ d[j].year = d[i].year })

WithField(r, f, v) == [c \in DOMAIN r \cup {f} |-> IF c = f THEN v ELSE r[c]]

\* Lines 46-47.
Classified(d) ==
    LET s == sort_values(d)
    IN  [i \in 1..Len(s) |-> WithField(s[i], "is_total_row", cumcount(s, i) = 0)]

\* Lines 46-49.
Classify ==
    /\ pc = "classify"
    /\ df' = Classified(df)
    /\ totals' = SelectSeq(df', LAMBDA r : r.is_total_row)
    /\ companies' = SelectSeq(df', LAMBDA r : ~r.is_total_row)
    /\ pc' = "sidebar"
    /\ ran' = Append(ran, "classify")
    /\ UNCHANGED << input, session, missing, selection, outputs >>

\* ------------------------------------------------------------------ sidebar
YearOptions == { totals[i].year : i \in 1..Len(totals) }

CountryOptions == { totals[i].country : i \in 1..Len(totals) }

\* ["All"] + sorted(companies["parent_company"].dropna().unique())
ParentCompanyOptions ==
    {All} \cup ({ companies[i].parent_company : i \in 1..Len(companies) } \ {Null})

\* The first option of a selectbox, the value it has until the user picks one.
DefaultYear ==
    IF YearOptions = {} THEN NoneYear
    ELSE CHOOSE y \in YearOptions : \A z \in YearOptions : y <= z

DefaultCountry ==
    IF CountryOptions = {} THEN NoneCountry
    ELSE CHOOSE c \in CountryOptions :
            \A z \in CountryOptions : CountryRank(c) <= CountryRank(z)

\* Lines 68-78: the three selectors and the frames filtered by them.
Sidebar ==
    /\ pc = "sidebar"
    /\ session' = IF session = << >> THEN << DefaultYear, DefaultCountry, All >>
                  ELSE session
    /\ year_selected' = session'[1]
    /\ country_selected' = session'[2]
    /\ parent_company_selected' = session'[3]
    /\ totals_y' = SelectSeq(totals, LAMBDA r : r.year = year_selected')
    /\ pc' = "kpi"
    /\ ran' = Append(ran, "sidebar")
    /\ UNCHANGED << input, views, missing, kpi, fig_map, comp_vals, trend,
                    trend_types, top10 >>

\* Line 76; totals_y has no other columns yet when total_row is taken.
total_row == SelectSeq(totals_y, LAMBDA r : r.country = country_selected)

\* Line 77.
companies_y == SelectSeq(companies, LAMBDA r : r.year = year_selected)

\* Line 78.
companies_yc ==
    SelectSeq(companies, LAMBDA r : r.year = year_selected /\ r.country = country_selected)

\* -------------------------------------------------------------- KPI section
KpiSectionRaising ==
    /\ pc = "kpi"
    /\ kpi' = IF total_row # << >>
              THEN [ kind |-> "metrics",
                     total_plastic |-> total_row[1].grand_total,
                     volunteers |-> total_row[1].volunteers,
                     events |-> total_row[1].num_events,
                     per_vol |-> total_row[1].grand_total_per_volunteer ]
              ELSE [ kind |-> "exception" ]
    /\ pc' = IF total_row # << >> THEN "map" ELSE "stopped"
    /\ ran' = Append(ran, "kpi")
    /\ UNCHANGED << input, session, views, missing, selection, totals_y, fig_map,
                    comp_vals, trend, trend_types, top10 >>

\* Lines 85-97: four metrics of the total row, or the warning.
KpiSection ==
    /\ pc = "kpi"
    /\ kpi' = IF total_row # << >>
              THEN [ kind |-> "metrics",
                     total_plastic |-> total_row[1].grand_total,
                     volunteers |-> total_row[1].volunteers,
                     events |-> total_row[1].num_events,
                     per_vol |-> total_row[1].grand_total_per_volunteer ]
              ELSE [ kind |-> "warning", country |-> country_selected,
                     year |-> year_selected ]
    /\ pc' = "map"
    /\ ran' = Append(ran, "kpi")
    /\ UNCHANGED << input, session, views, missing, selection, totals_y, fig_map,
                    comp_vals, trend, trend_types, top10 >>

\* ---------------------------------------------------------------- world map
\* Lines 110-118: the column custom_hover.
custom_hover(r) ==
    << r.country, r.year, r.grand_total, r.volunteers, r.grand_total_per_volunteer >>

WorldMapThroughView ==
    /\ pc = "map"
    /\ totals_y' = [i \in 1..Len(totals_y) |->
                      WithField(totals_y[i], "custom_hover", custom_hover(totals_y[i]))]
    /\ totals' = [i \in 1..Len(totals) |->
                    IF totals[i].year = year_selected
                    THEN WithField(totals[i], "custom_hover", custom_hover(totals[i]))
                    ELSE totals[i]]
    /\ fig_map' = [ kind |-> "choropleth",
                    locations |-> [i \in 1..Len(totals_y) |-> totals_y[i].country],
                    z |-> [i \in 1..Len(totals_y) |->
                              totals_y[i].grand_total_per_volunteer],
                    customdata |-> [i \in 1..Len(totals_y) |-> totals_y'[i].custom_hover],
                    marker |-> SelectSeq(totals_y', LAMBDA r : r.country = country_selected)
                                  # << >> ]
    /\ pc' = "composition"
    /\ ran' = Append(ran, "map")
    /\ UNCHANGED << input, session, df, companies, missing, selection, kpi, comp_vals,
                    trend, trend_types, top10 >>

\* Lines 102-147.  totals_y came out of a boolean mask, which is a new frame:
\* the column is added to totals_y alone.
WorldMap ==
    /\ pc = "map"
    /\ totals_y' = [i \in 1..Len(totals_y) |->
                      WithField(totals_y[i], "custom_hover", custom_hover(totals_y[i]))]
    /\ fig_map' = [ kind |-> "choropleth",
                    locations |-> [i \in 1..Len(totals_y) |-> totals_y[i].country],
                    z |-> [i \in 1..Len(totals_y) |->
                              totals_y[i].grand_total_per_volunteer],
                    customdata |-> [i \in 1..Len(totals_y) |-> totals_y'[i].custom_hover],
                    marker |-> SelectSeq(totals_y', LAMBDA r : r.country = country_selected)
                                  # << >> ]
    /\ pc' = "composition"
    /\ ran' = Append(ran, "map")
    /\ UNCHANGED << input, session, views, missing, selection, kpi, comp_vals,
                    trend, trend_types, top10 >>

\* -------------------------------------------------------------- composition
\* Lines 154-159.
comp_for_comp(p) ==
    IF p = All THEN companies_yc
    ELSE SelectSeq(companies_yc, LAMBDA r : r.parent_company = p)

\* comp_for_comp[plastics_cols].sum()
CompVals(d) == [c \in Range(plastics_cols) |-> ColSum(d, c)]

CompositionAlwaysDrawn ==
    /\ pc = "composition"
    /\ comp_vals' = [kind |-> "bar", vals |-> CompVals(comp_for_comp(parent_company_selected))]
    /\ pc' = "trend"
    /\ ran' = Append(ran, "composition")
    /\ UNCHANGED << input, session, views, missing, selection, totals_y, kpi, fig_map,
                    trend, trend_types, top10 >>

\* Lines 152-177: the bar chart, drawn only for a non-empty frame.
Composition ==
    /\ pc = "composition"
    /\ comp_vals' = IF comp_for_comp(parent_company_selected) # << >>
                    THEN [kind |-> "bar",
                          vals |-> CompVals(comp_for_comp(parent_company_selected))]
                    ELSE [kind |-> "skipped"]
    /\ pc' = "trend"
    /\ ran' = Append(ran, "composition")
    /\ UNCHANGED << input, session, views, missing, selection, totals_y, kpi, fig_map,
                    trend, trend_types, top10 >>

\* ------------------------------------------------------------------- trends
\* Line 185.
comp_country_all_years == SelectSeq(companies, LAMBDA r : r.country = country_selected)

RECURSIVE Ascending(_)
\* The elements of a set of integers in ascending order.
Ascending(S) ==
    IF S = {} THEN << >>
    ELSE LET m == CHOOSE x \in S : \A y \in S : x <= y
         IN  << m >> \o Ascending(S \ {m})

\* d.groupby("year")[cols].sum().reset_index(): one row per year, by year.
GroupByYearSum(d, cols) ==
    LET years == Ascending({ d[i].year : i \in 1..Len(d) })
    IN  [k \in 1..Len(years) |->
            [c \in Range(cols) \cup {"year"} |->
                IF c = "year" THEN years[k]
                ELSE ColSum(SelectSeq(d, LAMBDA r : r.year = years[k]), c)]]

\* Lines 182-211.
RecyclableTrend ==
    /\ pc = "trend"
    /\ trend' =
          IF comp_country_all_years # << >>
          THEN LET g == GroupByYearSum(comp_country_all_years,
                                       recyclable \o non_recyclable)
               IN  [k \in 1..Len(g) |->
                      WithField(WithField(g[k], "Recyclable", RowSum(g[k], recyclable)),
                                "Non-Recyclable", RowSum(g[k], non_recyclable))]
          ELSE << >>
    /\ pc' = "trend_types"
    /\ ran' = Append(ran, "trend")
    /\ UNCHANGED << input, session, views, missing, selection, totals_y, kpi, fig_map,
                    comp_vals, trend_types, top10 >>

\* Lines 216-233.
TypeTrend ==
    /\ pc = "trend_types"
    /\ trend_types' =
          IF comp_country_all_years # << >>
          THEN GroupByYearSum(comp_country_all_years, plastics_cols)
          ELSE << >>
    /\ pc' = "top10"
    /\ ran' = Append(ran, "trend_types")
    /\ UNCHANGED << input, session, views, missing, selection, totals_y, kpi, fig_map,
                    comp_vals, trend, top10 >>

\* ------------------------------------------------------------------- top 10
\* groupby("parent_company")["grand_total_per_volunteer"].sum().reset_index():
\* one row per parent company; rows with a null parent company are in no group.
GroupByCompanySum(d) ==
    { [ parent_company |-> p,
        grand_total_per_volunteer |->
            ColSum(SelectSeq(d, LAMBDA r : r.parent_company = p), "grand_total_per_volunteer") ]
      : p \in { d[i].parent_company : i \in 1..Len(d) } \ {Null} }

RECURSIVE Descending(_)
\* sort_values(by="grand_total_per_volunteer", ascending=False): every order
\* of the rows with non-increasing sums.  The sort is not a stable one, so
\* rows of equal sums come out in any order.
Descending(S) ==
    IF S = {} THEN { << >> }
    ELSE UNION { { << x >> \o t : t \in Descending(S \ {x}) }
                 : x \in { y \in S : \A z \in S : y.grand_total_per_volunteer
                                                   >= z.grand_total_per_volunteer } }

HeadOfTail(s, n) == IF Len(s) <= n THEN s ELSE SubSeq(s, Len(s) - n + 1, Len(s))

\* .head(n)
Head_(s, n) == SubSeq(s, 1, IF Len(s) < n THEN Len(s) ELSE n)

\* Lines 238-262.
Top10Section ==
    /\ pc = "top10"
    /\ \E s \in Descending(GroupByCompanySum(companies_y)) : top10' = Head_(s, TopN)
    /\ pc' = "done"
    /\ ran' = Append(ran, "top10")
    /\ UNCHANGED << input, session, views, missing, selection, totals_y, kpi, fig_map,
                    comp_vals, trend, trend_types >>

\* ------------------------------------------------------------------- re-run
\* The user picks another option in one of the three selectors; Streamlit
\* keeps the widget values and runs the script again from its first line.
Interact ==
    /\ pc = "done"
    /\ \E y \in YearOptions \cup {session[1]}, c \in CountryOptions \cup {session[2]},
          p \in ParentCompanyOptions :
          /\ Cardinality({ i \in 1..3 : << y, c, p >>[i] # session[i] }) = 1
          /\ session' = << y, c, p >>
    /\ pc' = "load"
    /\ ran' = << >>
    /\ df' = << >> /\ missing' = << >> /\ totals' = << >> /\ companies' = << >>
    /\ year_selected' = NoneYear /\ country_selected' = NoneCountry
    /\ parent_company_selected' = All
    /\ totals_y' = << >> /\ kpi' = Unset /\ fig_map' = Unset /\ comp_vals' = Unset
    /\ trend' = << >> /\ trend_types' = << >> /\ top10' = << >>
    /\ UNCHANGED input

Next ==
    \/ Load
    \/ Classify
    \/ Sidebar
    \/ KpiSection
    \/ WorldMap
    \/ Composition
    \/ RecyclableTrend
    \/ TypeTrend
    \/ Top10Section
    \/ Interact

Spec == Init /\ [][Next]_vars

\* ============================================================== properties
Sections ==
    << "load", "classify", "sidebar", "kpi", "map", "composition", "trend",
       "trend_types", "top10" >>

\* The section that runs after n sections have run.
SectionAfter(n) == IF n = Len(Sections) THEN "done" ELSE Sections[n + 1]

\* Section name has run in this run of the script.
HasRun(name) == name \in Range(ran)

\* The lines of the CSV rows of the group (c, y).
GroupLines(c, y) ==
    { i \in 1..Len(csv) : csv[i].country = c /\ csv[i].year = y }

SameGroup(a, b) == a.country = b.country /\ a.year = b.year

\* A total row exists for the selected country and year.
SelectedTotalExists ==
    \E i \in 1..Len(totals) :
        totals[i].country = country_selected /\ totals[i].year = year_selected

\* ---------------------------------------------------------------------- C1
\* C1: once the classifier has run, every (country, year) group with at least
\* one record has exactly one record with is_total_row = TRUE, which is the
\* only record of the group in totals; the other records of the group are
\* the group's records in companies, and df has the records of the file.
C1_OneTotalPerGroup ==
    HasRun("classify") =>
        /\ Len(df) = Len(csv)
        /\ { df[i].line : i \in 1..Len(df) } = 1..Len(csv)
        /\ \A n \in 1..Len(csv) :
              LET g == { i \in 1..Len(df) : SameGroup(df[i], csv[n]) }
              IN  /\ Cardinality({ i \in g : df[i].is_total_row }) = 1
                  /\ Cardinality({ i \in 1..Len(totals) : SameGroup(totals[i], csv[n]) }) = 1
                  /\ Cardinality({ i \in 1..Len(companies) :
                                      SameGroup(companies[i], csv[n]) })
                        = Cardinality(g) - 1

\* A file whose rows are out of order and that holds a group of three records.
C1_Witness ==
    /\ HasRun("classify")
    /\ \E n \in 1..Len(csv) : Cardinality(GroupLines(csv[n].country, csv[n].year)) >= 3
    /\ \E n \in 1..(Len(csv) - 1) : KeyLT(csv[n + 1], csv[n])

\* ---------------------------------------------------------------------- C2
\* C2: the record tagged as total is the record of its group that comes first
\* in the load order of the file, and the sort keeps records of one group in
\* their load order.
C2_TotalIsFirstLoaded ==
    HasRun("classify") =>
        /\ \A i \in 1..Len(df) :
              df[i].is_total_row =>
                  \A n \in GroupLines(df[i].country, df[i].year) : df[i].line <= n
        /\ \A i, j \in 1..Len(df) :
              (i < j /\ SameGroup(df[i], df[j])) => df[i].line < df[j].line

\* Two records of one group with a record of an earlier-sorting group between
\* them in the file.
C2_Witness ==
    /\ HasRun("classify")
    /\ \E a, b, c \in 1..Len(csv) :
          /\ a < b /\ b < c
          /\ SameGroup(csv[a], csv[c])
          /\ KeyLT(csv[b], csv[a])
          /\ \E i \in 1..Len(df) : df[i].line = a /\ df[i].is_total_row

\* ---------------------------------------------------------------------- C3
\* C3: when a required column is absent, the load reports exactly the absent
\* required columns and the run halts there: no classification, selector or
\* aggregation has run.  When none is absent no error is reported.
C3_SchemaError ==
    HasRun("load") =>
        /\ Range(missing) = Range(required) \ columns
        /\ Len(missing) = Cardinality(Range(missing))
        /\ (Range(required) \ columns # {}) =>
              /\ pc = "stopped"
              /\ ran = << "load" >>
              /\ session = << >>
              /\ totals = << >> /\ companies = << >>
              /\ selection = << NoneYear, NoneCountry, All >>
              /\ outputs = << << >>, Unset, Unset, Unset, << >>, << >>, << >> >>
        /\ (Range(required) \subseteq columns) => (missing = << >> /\ pc # "stopped")

\* A halted run with two absent columns.
C3_Witness == pc = "stopped" /\ Len(missing) = 2 /\ ran = << "load" >>

\* ---------------------------------------------------------------------- C4
\* C4: when the selected (country, year) has no total row, the KPI section
\* gives the warning, the run does not halt, and the sections after it run in
\* their order up to the end of the script.
C4_AbsentTotalIsNotFatal ==
    (HasRun("kpi") /\ ~SelectedTotalExists) =>
        /\ kpi = [kind |-> "warning", country |-> country_selected,
                  year |-> year_selected]
        /\ ran = SubSeq(Sections, 1, Len(ran))
        /\ pc = SectionAfter(Len(ran))

\* The end of a run that gave the warning, with every section run.
C4_Witness ==
    /\ pc = "done" /\ ran = Sections
    /\ kpi.kind = "warning" /\ ~SelectedTotalExists
    /\ Len(totals) >= 2

\* ---------------------------------------------------------------------- C5
\* What the composition query gives for parent company p: the seven sums
\* (zeros when the frame is empty and nothing is drawn).
CompositionOf(p) == CompVals(comp_for_comp(p))

\* C5 (as claimed): for the selected country and year, the composition with
\* "All" equals, in each of the 7 categories, the sum of the compositions of
\* the selectable parent companies.
C5_AllIsSumOfCompanies ==
    HasRun("composition") =>
        \A c \in Range(plastics_cols) :
            CompositionOf(All)[c]
                = SumOver(ParentCompanyOptions \ {All},
                          [p \in ParentCompanyOptions \ {All} |-> CompositionOf(p)[c]])

\* ---------------------------------------------------------------------- C6
\* C6: the two trends have the same years in the same order, and for every
\* year Recyclable + Non-Recyclable is the sum of the 7 category values of
\* the per-category trend.
C6_TrendsAgree ==
    HasRun("trend_types") =>
        /\ Len(trend) = Len(trend_types)
        /\ \A k \in 1..Len(trend) :
              /\ trend[k].year = trend_types[k].year
              /\ trend[k]["Recyclable"] + trend[k]["Non-Recyclable"]
                    = RowSum(trend_types[k], plastics_cols)
        /\ { trend[k].year : k \in 1..Len(trend) }
              = { companies[i].year : i \in { j \in 1..Len(companies) :
                                                companies[j].country = country_selected } }

\* Trends over two years.
C6_Witness == HasRun("trend_types") /\ Len(trend) = 2 /\ Len(trend_types) = 2

\* ---------------------------------------------------------------------- C7
\* The parent companies of the company rows of the selected year.
CompaniesOfYear ==
    { companies_y[i].parent_company : i \in 1..Len(companies_y) } \ {Null}

\* The sum of grand_total_per_volunteer of parent company p in that year.
RatioSum(p) ==
    ColSum(SelectSeq(companies_y, LAMBDA r : r.parent_company = p),
           "grand_total_per_volunteer")

\* C7: the top-N result has at most 10 entries (all companies when there are
\* fewer), no more than the distinct parent companies of the year, each at
\* most once with its summed ratio, in non-increasing order of the sum, and
\* no company left out has a larger sum than one that is in it.
C7_TopTen ==
    HasRun("top10") =>
        LET in == { top10[k].parent_company : k \in 1..Len(top10) }
        IN  /\ Len(top10) <= 10
            /\ Len(top10) <= Cardinality(CompaniesOfYear)
            /\ Len(top10) = 10 \/ Len(top10) = Cardinality(CompaniesOfYear)
            /\ Cardinality(in) = Len(top10)
            /\ in \subseteq CompaniesOfYear
            /\ \A k \in 1..Len(top10) :
                  top10[k].grand_total_per_volunteer = RatioSum(top10[k].parent_company)
            /\ \A k \in 1..(Len(top10) - 1) :
                  top10[k].grand_total_per_volunteer
                      >= top10[k + 1].grand_total_per_volunteer
            /\ \A p \in CompaniesOfYear \ in :
                  \A k \in 1..Len(top10) :
                      RatioSum(p) <= top10[k].grand_total_per_volunteer

\* Eleven companies, ten of them listed, the one left out tied with the last
\* one listed.
C7_Witness ==
    /\ HasRun("top10")
    /\ Cardinality(CompaniesOfYear) = 11
    /\ Len(top10) = 10
    /\ \E p \in CompaniesOfYear \ { top10[k].parent_company : k \in 1..10 } :
          RatioSum(p) = top10[10].grand_total_per_volunteer

\* ---------------------------------------------------------------------- C8
\* C8 (as claimed): the selected parent company is "All" or a non-null parent
\* company of a company row of the selected year.
C8_ParentCompanyOfSelectedYear ==
    HasRun("sidebar") =>
        \/ parent_company_selected = All
        \/ /\ parent_company_selected # Null
           /\ \E i \in 1..Len(companies) :
                 /\ companies[i].year = year_selected
                 /\ companies[i].parent_company = parent_company_selected

\* ---------------------------------------------------------------------- C9
\* C9: no section after the classification changes df, totals or companies,
\* and after any selections and re-runs they are what the classification of
\* the file gives.
C9_ViewsUnchanged ==
    /\ [](HasRun("classify") =>
            LET d == Classified(csv)
            IN  /\ df = d
                /\ totals = SelectSeq(d, LAMBDA r : r.is_total_row)
                /\ companies = SelectSeq(d, LAMBDA r : ~r.is_total_row))
    /\ [][(HasRun("classify") /\ pc # "done") => views' = views]_vars

\* The end of a run after the user changed the year and the parent company,
\* with the map's column added to a non-empty totals_y.
C9_Witness ==
    /\ pc = "done"
    /\ Len(totals_y) >= 1 /\ "custom_hover" \in DOMAIN totals_y[1]
    /\ session[1] # DefaultYear /\ session[3] # All
    /\ Len(totals) >= 2 /\ Len(companies) >= 1

\* --------------------------------------------------------------------- C10
\* C10: when the selected (country, year) group has exactly one record, that
\* record is a total row, the group has no company rows, the composition is
\* empty for "All" and for every parent company and is skipped, and the KPI
\* section shows the values of that record.
C10_SingleRecordGroup ==
    (HasRun("composition")
        /\ Cardinality(GroupLines(country_selected, year_selected)) = 1) =>
        LET n == CHOOSE i \in GroupLines(country_selected, year_selected) : TRUE
        IN  /\ \E i \in 1..Len(totals) : totals[i].line = n
            /\ \A i \in 1..Len(companies) : companies[i].line # n
            /\ companies_yc = << >>
            /\ \A p \in ParentCompanyOptions : comp_for_comp(p) = << >>
            /\ comp_vals = [kind |-> "skipped"]
            /\ kpi = [ kind |-> "metrics",
                       total_plastic |-> csv[n].grand_total,
                       volunteers |-> csv[n].volunteers,
                       events |-> csv[n].num_events,
                       per_vol |-> csv[n].grand_total_per_volunteer ]
            /\ ran = SubSeq(Sections, 1, Len(ran))
            /\ pc = SectionAfter(Len(ran))

\* A single-record group selected together with a parent company.
C10_Witness ==
    /\ pc = "done"
    /\ Cardinality(GroupLines(country_selected, year_selected)) = 1
    /\ parent_company_selected # All
    /\ comp_vals.kind = "skipped" /\ kpi.kind = "metrics"

====
